---- MODULE Spec2Model ----
(***************************************************************************)
(* The rename pipeline of snapkeeper.py (single-stage description) and     *)
(* snapsweaper.py (two-stage description): eligibility filter, provider     *)
(* calls, sanitization, collision resolution and the batch loop.            *)
(*                                                                          *)
(* A Python str is a sequence of one-character strings.  A path is a        *)
(* record [dir, name]: os.path.join, dirname and basename act on it.        *)
(***************************************************************************)
EXTENDS Integers, Sequences, FiniteSets, TLC

VARIABLES
    variant,      \* which program runs: "snapkeeper" or "snapsweaper"
    provider,     \* API_PROVIDER
    keySet,       \* the credential variable is set (API_KEY is truthy)
    ollamaSvc,    \* what the local Ollama service answers to the pre-flight
    fs,           \* the paths that exist in the filesystem
    fs0,          \* history: the filesystem before the first run
    run,          \* number of the current run of main()
    pc,           \* position of the program
    valid_files,  \* process_directory: the list of eligible paths
    idx,          \* process_directory: position in valid_files (1-based)
    date_str,     \* process_filename: the normalized date
    description,  \* process_filename: the description text
    clean_desc,   \* process_filename: the sanitized token
    new_name,     \* the path process_filename returned
    reqs1,        \* description / stage-1 POSTs sent for the file the loop
                  \* took up last
    reqs2,        \* stage-2 POSTs sent for that file
    renamed,      \* history: the renames performed, as [src, dst, run] records
    failedAt,     \* history: the index of the file whose provider call has just
                  \* failed (timeout, transport error, status, body), else 0
    skipAt        \* history: the index of the file whose stage-1 call has just
                  \* been answered "skip", nothing or under 3 characters, else 0

vars == <<variant, provider, keySet, ollamaSvc, fs, fs0, run, pc, valid_files,
          idx, date_str, description, clean_desc, new_name, reqs1, reqs2, renamed,
          failedAt, skipAt>>

(***************************************************************************)
(* Bounds of the model.                                                     *)
(***************************************************************************)
MaxFiles == 3      \* directory entries before the first run
MaxRuns == 2       \* runs of main() over the same directory
MaxDescLen == 4    \* length of the descriptions SpecSanitize draws

(***************************************************************************)
(* Characters and strings.                                                  *)
(***************************************************************************)
\* The characters \d matches in the names of the model (ASCII digits).
Digits == {"0", "1", "2", "3", "4", "5", "6", "7", "8", "9"}

LowerLetters == {"a", "b", "c", "e", "g", "h", "i", "j", "k", "n", "o", "p",
                 "r", "s", "t", "v", "x"}

UpperLetters == {"C", "G", "J", "K", "I", "N", "P", "R", "S"}

\* One CJK ideograph of the range 一-鿿.
CJK == {"U+4E2D"}

DigitVal(c) ==
    CASE c = "0" -> 0 [] c = "1" -> 1 [] c = "2" -> 2 [] c = "3" -> 3
      [] c = "4" -> 4 [] c = "5" -> 5 [] c = "6" -> 6 [] c = "7" -> 7
      [] c = "8" -> 8 [] c = "9" -> 9

DigitChar(n) ==
    CASE n = 0 -> "0" [] n = 1 -> "1" [] n = 2 -> "2" [] n = 3 -> "3"
      [] n = 4 -> "4" [] n = 5 -> "5" [] n = 6 -> "6" [] n = 7 -> "7"
      [] n = 8 -> "8" [] n = 9 -> "9"

\* str.lower() on one character.
LowerChar(c) ==
    CASE c = "C" -> "c" [] c = "G" -> "g" [] c = "J" -> "j" [] c = "K" -> "k"
      [] c = "I" -> "i" [] c = "N" -> "n" [] c = "P" -> "p" [] c = "R" -> "r"
      [] c = "S" -> "s" [] OTHER -> c

Lower(s) == [i \in 1..Len(s) |-> LowerChar(s[i])]

StartsWith(s, p) == Len(s) >= Len(p) /\ SubSeq(s, 1, Len(p)) = p

EndsWith(s, p) == Len(s) >= Len(p) /\ SubSeq(s, Len(s) - Len(p) + 1, Len(s)) = p

AllDigits(s) == \A i \in 1..Len(s) : s[i] \in Digits

\* str(n) for n >= 0.
RECURSIVE IntToStr(_)
IntToStr(n) == IF n < 10 THEN <<DigitChar(n)>>
               ELSE Append(IntToStr(n \div 10), DigitChar(n % 10))

\* int(s) for a string of digits.
RECURSIVE StrToInt(_)
StrToInt(s) == IF s = <<>> THEN 0
               ELSE 10 * StrToInt(SubSeq(s, 1, Len(s) - 1)) + DigitVal(s[Len(s)])

\* str.strip(chars): drop the leading and trailing characters that are in chars.
RECURSIVE LStrip(_, _)
LStrip(s, chars) == IF s # <<>> /\ s[1] \in chars THEN LStrip(Tail(s), chars) ELSE s

RECURSIVE RStrip(_, _)
RStrip(s, chars) == IF s # <<>> /\ s[Len(s)] \in chars
                    THEN RStrip(SubSeq(s, 1, Len(s) - 1), chars) ELSE s

Strip(s, chars) == RStrip(LStrip(s, chars), chars)

\* The value None, where a str is expected.
None == <<"!None">>

\* The ValueError that datetime.strptime raises, where a str is expected.
ValueError == <<"!ValueError">>

\* not x, for x a str or None
Falsy(x) == x = None \/ x = <<>>

(***************************************************************************)
(* Eligibility filter.                                                      *)
(***************************************************************************)
ScreenShotPrefix == <<"S", "c", "r", "e", "e", "n", " ", "S", "h", "o", "t">>

SCRPrefix == <<"S", "C", "R">>

ImageExts == {<<".", "p", "n", "g">>, <<".", "j", "p", "g">>, <<".", "j", "p", "e", "g">>}

\* file.lower().endswith(('.png', '.jpg', '.jpeg'))
HasImageExt(file) == \E e \in ImageExts : EndsWith(Lower(file), e)

\* \d{4}(-\d{2}){2} at the start of s
IsHyphenDate(s) ==
    /\ Len(s) >= 10
    /\ AllDigits(SubSeq(s, 1, 4)) /\ s[5] = "-"
    /\ AllDigits(SubSeq(s, 6, 7)) /\ s[8] = "-"
    /\ AllDigits(SubSeq(s, 9, 10))

\* \d{8} at the start of s
IsBareDate(s) == Len(s) >= 8 /\ AllDigits(SubSeq(s, 1, 8))

\* What follows the prefix (Screen Shot|SCR), or None.
AfterPrefix(filename) ==
    IF StartsWith(filename, ScreenShotPrefix)
    THEN SubSeq(filename, Len(ScreenShotPrefix) + 1, Len(filename))
    ELSE IF StartsWith(filename, SCRPrefix)
    THEN SubSeq(filename, Len(SCRPrefix) + 1, Len(filename))
    ELSE None

\* re.match(r"^(Screen Shot|SCR)-(\d{4}(-\d{2}){2}|\d{8})", filename):
\* group(2) of the match, or None.
OldFormat(filename) ==
    LET r == AfterPrefix(filename) IN
    IF r = None \/ r = <<>> \/ r[1] # "-" THEN None
    ELSE LET t == Tail(r) IN
         IF IsHyphenDate(t) THEN SubSeq(t, 1, 10)
         ELSE IF IsBareDate(t) THEN SubSeq(t, 1, 8)
         ELSE None

(***************************************************************************)
(* Date normalization.                                                      *)
(***************************************************************************)
IsLeap(y) == (y % 4 = 0 /\ y % 100 # 0) \/ y % 400 = 0

DaysInMonth(y, m) ==
    IF m = 2 THEN (IF IsLeap(y) THEN 29 ELSE 28)
    ELSE IF m \in {4, 6, 9, 11} THEN 30 ELSE 31

\* datetime.strptime(raw, "%Y-%m-%d") for raw of the shape dddd-dd-dd:
\* the date [y, m, d]; raises is TRUE when strptime raises ValueError.
Strptime(raw) ==
    LET y == StrToInt(SubSeq(raw, 1, 4))
        m == StrToInt(SubSeq(raw, 6, 7))
        d == StrToInt(SubSeq(raw, 9, 10))
    IN [raises |-> ~(y >= 1 /\ m \in 1..12 /\ d >= 1 /\ d <= DaysInMonth(y, m)),
        y |-> y, m |-> m, d |-> d]

Pad(s, width) == [i \in 1..(width - Len(s)) |-> "0"] \o s

StrftimeHyphens(date, padYear) ==
    (IF padYear THEN Pad(IntToStr(date.y), 4) ELSE IntToStr(date.y))
    \o <<"-">> \o Pad(IntToStr(date.m), 2) \o <<"-">> \o Pad(IntToStr(date.d), 2)

\* date.strftime("%Y%m%d").  %Y is the C library's: glibc does not pad a year
\* below 1000 to four digits, other libraries do (padYear).
Strftime(date, padYear) ==
    (IF padYear THEN Pad(IntToStr(date.y), 4) ELSE IntToStr(date.y))
    \o Pad(IntToStr(date.m), 2) \o Pad(IntToStr(date.d), 2)

\* date_str = strptime(raw).strftime(...) if '-' in raw_date else raw_date
DateStr(raw_date, padYear) ==
    IF \E i \in 1..Len(raw_date) : raw_date[i] = "-"
    THEN LET date == Strptime(raw_date) IN
         IF date.raises THEN ValueError ELSE Strftime(date, padYear)
    ELSE raw_date

(***************************************************************************)
(* Sanitization.                                                            *)
(***************************************************************************)
\* \w of a str pattern: letters, digits, underscore (ideographs are letters)
IsWordChar(c) == c \in LowerLetters \cup UpperLetters \cup Digits \cup CJK \cup {"_"}

\* the class [\w一-鿿-]
IsTokenChar(c) == IsWordChar(c) \/ c \in CJK \/ c = "-"

\* description.replace(' ', '_')
ReplaceSpaces(s) == [i \in 1..Len(s) |-> IF s[i] = " " THEN "_" ELSE s[i]]

\* re.sub(r'[^\w一-鿿-]', '', s)
StripIllegal(s) == SelectSeq(s, IsTokenChar)

\* re.sub(ch + '+', ch, s): every run of ch becomes one ch
RECURSIVE CollapseRuns(_, _)
CollapseRuns(s, ch) ==
    IF Len(s) < 2 THEN s
    ELSE IF s[1] = ch /\ s[2] = ch THEN CollapseRuns(Tail(s), ch)
    ELSE <<s[1]>> \o CollapseRuns(Tail(s), ch)

\* re.sub(ch + ch, ch, s): every pair of ch becomes one ch, left to right
RECURSIVE CollapsePairs(_, _)
CollapsePairs(s, ch) ==
    IF Len(s) < 2 THEN s
    ELSE IF s[1] = ch /\ s[2] = ch THEN <<ch>> \o CollapsePairs(Tail(Tail(s)), ch)
    ELSE <<s[1]>> \o CollapsePairs(Tail(s), ch)

CollapseUnderscoresPairwise(s) == CollapsePairs(s, "_")

\* re.sub(r'_+', '_', clean_desc)
CollapseUnderscores(s) == CollapseRuns(s, "_")

\* re.sub(r'-+', '-', clean_desc)
CollapseHyphens(s) == CollapseRuns(s, "-")

\* clean_desc.strip('_-'): snapsweaper only
TrimToken(s) == Strip(s, {"_", "-"})

\* The sanitized token of a description, as process_filename of the given
\* program computes it.
Sanitize(d, v) ==
    LET c == CollapseHyphens(CollapseUnderscores(StripIllegal(ReplaceSpaces(d))))
    IN IF v = "snapsweaper" THEN TrimToken(c) ELSE c

(***************************************************************************)
(* Paths and collision resolution.                                          *)
(***************************************************************************)
\* os.path.join(dir_path, name)
Join(dir_path, name) == [dir |-> dir_path, name |-> name]

\* The value None, where a path is expected.
NoPath == [dir |-> "", name |-> None]

\* os.path.splitext(name): <<root, ext>>, split at the last dot unless only
\* dots precede it.
SplitExt(name) ==
    LET dots == {i \in 1..Len(name) : name[i] = "."} IN
    IF dots = {} THEN <<name, <<>> >>
    ELSE LET i == CHOOSE k \in dots : \A j \in dots : j <= k IN
         IF \A j \in 1..(i - 1) : name[j] = "." THEN <<name, <<>> >>
         ELSE <<SubSeq(name, 1, i - 1), SubSeq(name, i, Len(name))>>

BaseNameKeepsPrefix(date, clean) ==
    <<"S", "C", "R", "-">> \o date \o <<"-">> \o clean \o <<".", "p", "n", "g">>

\* base_name = f"{date_str}-{clean_desc}.png"
BaseName(date, clean) == date \o <<"-">> \o clean \o <<".", "p", "n", "g">>

PathExistsAtStart(p) == p \in fs0

\* os.path.exists(p), asked of the filesystem as it is now
PathExists(p) == p \in fs

\* f"{name_part}-{counter}{ext}" in dir_path
Suffixed(dir_path, name_part, counter, ext) ==
    Join(dir_path, name_part \o <<"-">> \o IntToStr(counter) \o ext)

ResolveOnce(candidate, counter, dir_path, name_part, ext) ==
    IF PathExists(candidate) THEN Suffixed(dir_path, name_part, counter, ext)
    ELSE candidate

\* while os.path.exists(new_name): new_name = ...; counter += 1
RECURSIVE ResolveLoop(_, _, _, _, _)
ResolveLoop(candidate, counter, dir_path, name_part, ext) ==
    IF PathExists(candidate)
    THEN ResolveLoop(Suffixed(dir_path, name_part, counter, ext), counter + 1,
                     dir_path, name_part, ext)
    ELSE candidate

\* The tail of process_filename: base name, splitext, counter = 1, the loop.
ResolvedName(dir_path, date, clean) ==
    LET base_name == BaseName(date, clean)
        parts == SplitExt(base_name)
    IN ResolveLoop(Join(dir_path, base_name), 1, dir_path, parts[1], parts[2])

(***************************************************************************)
(* The description provider.                                                *)
(***************************************************************************)
\* A response body that is not the JSON the parser expects.
Malformed == <<"!Malformed">>

SkipWord == <<"s", "k", "i", "p">>

\* The texts a provider answers with.
Texts == { <<>>,
           <<"a">>,
           <<"a", " ", "b">>,
           <<" ", "a", "-">>,
           <<"!">>,
           <<"S", "k", "i", "p">> }

\* What a POST to the provider comes to: a timeout, a transport error, or an
\* HTTP response with a status and a body.
Answers ==
    {[kind |-> k, status |-> 0, body |-> Malformed] : k \in {"timeout", "connerror"}}
    \cup [kind : {"http"}, status : {200, 500}, body : Texts \cup {Malformed}]

\* The call raised, or the response has a status other than 200 or a body
\* that is not the expected JSON.
IsFailure(ans) == ans.kind # "http" \/ ans.status # 200 \/ ans.body = Malformed

\* The response is a success whose text is empty, shorter than 3 characters
\* or the word skip in any letter case.
DegenerateAnswer(ans) ==
    /\ ans.kind = "http" /\ ans.status = 200 /\ ans.body # Malformed
    /\ \/ Len(ans.body) < 3
       \/ /\ Len(ans.body) = 4
          /\ ans.body[1] \in {"s", "S"} /\ ans.body[2] \in {"k", "K"}
          /\ ans.body[3] \in {"i", "I"} /\ ans.body[4] \in {"p", "P"}

\* API_CONFIGS[provider]['key_env'] is not None
KeyEnv(prov) == prov \in {"openai", "dashscope"}

RequiredModels == {"llama3.2-vision", "qwen2.5:32b"}

\* required in model['name'], for the model names of OllamaStates
NameContains(name, required) ==
    \/ name = required
    \/ name = "llama3.2-vision:latest" /\ required = "llama3.2-vision"

\* What the Ollama service answers: whether it accepts connections, the
\* status of GET / and of GET /api/tags, the names of the installed models.
OllamaStates ==
    {[reachable |-> FALSE, root |-> 0, tags |-> 0, models |-> {}],
     [reachable |-> TRUE, root |-> 500, tags |-> 0, models |-> {}],
     [reachable |-> TRUE, root |-> 200, tags |-> 500, models |-> {}]}
    \cup [reachable : {TRUE}, root : {200}, tags : {200},
          models : SUBSET {"llama3.2-vision:latest", "qwen2.5:32b"}]

\* check_ollama_service() returns without raising
CheckOllamaService(svc) ==
    /\ svc.reachable
    /\ svc.root = 200
    /\ svc.tags = 200
    /\ \A required \in RequiredModels :
          \E name \in svc.models : NameContains(name, required)

\* get_image_content reaches its requests.post: the key check and, for
\* ollama, the pre-flight check pass.
Stage1Sends ==
    /\ ~(KeyEnv(provider) /\ ~keySet)
    /\ provider = "ollama" => CheckOllamaService(ollamaSvc)

\* get_image_description (snapkeeper): the content of the answer or None.
\* The status of the response is not read.
GetImageDescription(ans) ==
    IF ans.kind # "http" \/ ans.body = Malformed THEN None ELSE ans.body

\* get_image_content (snapsweaper), from its requests.post on.
GetImageContent(ans) ==
    IF ans.kind # "http" \/ ans.status # 200 \/ ans.body = Malformed THEN None
    ELSE LET content == IF provider = "ollama" THEN Strip(ans.body, {" "})
                        ELSE ans.body
         IN IF content = <<>> \/ Lower(content) = SkipWord \/ Len(content) < 3
            THEN None ELSE content

\* re.sub(r'\s+', ' ', s): every run of spaces becomes one space
CollapseSpaces(s) == CollapseRuns(s, " ")

\* generate_filename (snapsweaper) for a truthy content.
GenerateFilename(ans) ==
    IF ans.kind # "http" \/ ans.status # 200 \/ ans.body = Malformed THEN None
    ELSE IF provider = "ollama"
    THEN LET stripped == Strip(ans.body, {" "})
             kept == SelectSeq(stripped, LAMBDA c : IsWordChar(c) \/ c \in CJK \/ c = " ")
             filename == Strip(CollapseSpaces(kept), {" "})
         IN IF filename = <<>> \/ Lower(filename) = SkipWord THEN None ELSE filename
    ELSE ans.body

\* not description or description.lower() == 'skip'
Rejected(desc) == Falsy(desc) \/ Lower(desc) = SkipWord

(***************************************************************************)
(* The directory.                                                           *)
(***************************************************************************)
TargetDir == "shots"

SubDir == "shots/sub"

\* The paths a directory may hold before the first run.
Universe ==
    { Join(TargetDir, <<"S","C","R","-","2","0","2","3","-","0","5","-","0","9",".","p","n","g">>),
      Join(TargetDir, <<"S","c","r","e","e","n"," ","S","h","o","t","-","2","0","2","3","0","5","0","9",".","J","P","G">>),
      Join(TargetDir, <<"S","C","R","-","2","0","2","3","-","1","3","-","4","5",".","p","n","g">>),
      Join(TargetDir, <<"v","a","c","a","t","i","o","n",".","p","n","g">>),
      Join(TargetDir, <<"S","C","R","-","2","0","2","3","-","0","5","-","0","9",".","t","x","t">>),
      Join(TargetDir, <<"2","0","2","3","0","5","0","9","-","a",".","p","n","g">>),
      Join(TargetDir, <<"2","0","2","3","0","5","0","9","-","a","-","1",".","p","n","g">>),
      Join(SubDir, <<"S","C","R","-","2","0","2","3","-","0","5","-","0","9",".","p","n","g">>) }

EligibleByPattern(p) == OldFormat(p.name) # None

\* The two tests of process_directory's scan.
Eligible(p) == HasImageExt(p.name) /\ OldFormat(p.name) # None

\* The orders in which a directory listing may give the paths of S.
Listings(S) ==
    {order \in [1..Cardinality(S) -> S] :
        \A i, j \in 1..Cardinality(S) : i # j => order[i] # order[j]}

\* os.walk(target_dir), top-down: the eligible files of the directory in the
\* order of its listing, then those of its sub-directory.
WalkOrders ==
    {top \o sub : top \in Listings({p \in fs : p.dir = TargetDir /\ Eligible(p)}),
                  sub \in Listings({p \in fs : p.dir = SubDir /\ Eligible(p)})}

(***************************************************************************)
(* The programs.                                                            *)
(***************************************************************************)
Configs ==
    [variant : {"snapkeeper"}, provider : {"dashscope"}, keySet : BOOLEAN,
     ollamaSvc : {CHOOSE o \in OllamaStates : ~o.reachable}]
    \cup [variant : {"snapsweaper"}, provider : {"openai", "dashscope"},
          keySet : BOOLEAN, ollamaSvc : {CHOOSE o \in OllamaStates : ~o.reachable}]
    \cup [variant : {"snapsweaper"}, provider : {"ollama"}, keySet : {FALSE},
          ollamaSvc : OllamaStates]

Init ==
    /\ \E c \in Configs :
          /\ variant = c.variant
          /\ provider = c.provider
          /\ keySet = c.keySet
          /\ ollamaSvc = c.ollamaSvc
    /\ fs \in {S \in SUBSET Universe : Cardinality(S) <= MaxFiles}
    /\ fs0 = fs
    /\ run = 1
    /\ pc = "main"
    /\ valid_files = <<>>
    /\ idx = 1
    /\ date_str = None
    /\ description = None
    /\ clean_desc = None
    /\ new_name = NoPath
    /\ reqs1 = 0
    /\ reqs2 = 0
    /\ renamed = {}
    /\ failedAt = 0
    /\ skipAt = 0

\* Where the loop of process_directory stands when it reaches entry i of files.
LoopAt(files, i) ==
    IF i > Len(files) THEN "done"
    ELSE IF variant = "snapsweaper" THEN "pd_content" ELSE "pf_date"

\* The loop goes on to the next file (continue, or the end of the body).
NextFile ==
    /\ idx' = idx + 1
    /\ pc' = LoopAt(valid_files, idx + 1)

\* The locals of process_filename, unset.
ClearLocals ==
    /\ date_str' = None
    /\ description' = None
    /\ clean_desc' = None
    /\ new_name' = NoPath

\* main(), up to the call of process_directory.  snapsweaper returns at once
\* when the provider needs a key and it is not set; snapkeeper does not look.
Main ==
    /\ pc = "main"
    /\ pc' = IF variant = "snapsweaper" /\ KeyEnv(provider) /\ ~keySet
             THEN "done" ELSE "scan"
    /\ UNCHANGED <<variant, provider, keySet, ollamaSvc, fs, fs0, run, valid_files,
                   idx, date_str, description, clean_desc, new_name, reqs1, reqs2,
                   renamed>>
    /\ failedAt' = 0
    /\ skipAt' = 0

\* process_directory: the walk that collects valid_files.
ScanDirectory ==
    /\ pc = "scan"
    /\ \E order \in WalkOrders :
          /\ valid_files' = order
          /\ idx' = 1
          /\ pc' = LoopAt(order, 1)
    /\ UNCHANGED <<variant, provider, keySet, ollamaSvc, fs, fs0, run, date_str,
                   description, clean_desc, new_name, reqs1, reqs2, renamed>>
    /\ failedAt' = 0
    /\ skipAt' = 0

\* process_directory (snapsweaper), step 1: content = get_image_content(path)
PdGetImageContent ==
    /\ pc = "pd_content"
    /\ \E ans \in Answers :
          LET content == IF Stage1Sends THEN GetImageContent(ans) ELSE None IN
          /\ failedAt' = IF Stage1Sends /\ IsFailure(ans) THEN idx ELSE 0
          /\ skipAt' = IF Stage1Sends /\ DegenerateAnswer(ans) THEN idx ELSE 0
          /\ IF Falsy(content)
             THEN NextFile
             ELSE pc' = "pd_generate" /\ idx' = idx
    /\ reqs1' = IF Stage1Sends THEN 1 ELSE 0
    /\ reqs2' = 0
    /\ ClearLocals
    /\ UNCHANGED <<variant, provider, keySet, ollamaSvc, fs, fs0, run, valid_files,
                   renamed>>

\* process_directory (snapsweaper), step 2: generate_filename(content)
PdGenerateFilename ==
    /\ pc = "pd_generate"
    /\ \E ans \in Answers :
          /\ failedAt' = IF IsFailure(ans) THEN idx ELSE 0
          /\ skipAt' = 0
          /\ IF Rejected(GenerateFilename(ans))
             THEN NextFile
             ELSE pc' = "pf_date" /\ idx' = idx
    /\ reqs2' = reqs2 + 1
    /\ UNCHANGED <<variant, provider, keySet, ollamaSvc, fs, fs0, run, valid_files,
                   date_str, description, clean_desc, new_name, reqs1, renamed>>

\* process_filename, up to the date: the match and the normalization, which
\* raises ValueError out of process_filename and of process_directory.
PfDate ==
    /\ pc = "pf_date"
    /\ LET raw_date == OldFormat(valid_files[idx].name) IN
       IF raw_date = None
       THEN NextFile /\ date_str' = None
       ELSE \E padYear \in BOOLEAN :
              LET d == DateStr(raw_date, padYear) IN
              IF d = ValueError
              THEN pc' = "crashed" /\ idx' = idx /\ date_str' = None
              ELSE /\ pc' = IF variant = "snapsweaper" THEN "pf_content"
                            ELSE "pf_describe"
                   /\ idx' = idx
                   /\ date_str' = d
    /\ description' = None
    /\ clean_desc' = None
    /\ new_name' = NoPath
    /\ reqs1' = IF variant = "snapsweaper" THEN reqs1 ELSE 0
    /\ reqs2' = IF variant = "snapsweaper" THEN reqs2 ELSE 0
    /\ UNCHANGED <<variant, provider, keySet, ollamaSvc, fs, fs0, run, valid_files,
                   renamed>>
    /\ failedAt' = 0
    /\ skipAt' = 0

\* process_filename (snapsweaper): content = get_image_content(image_path)
PfGetImageContent ==
    /\ pc = "pf_content"
    /\ \E ans \in Answers :
          LET content == IF Stage1Sends THEN GetImageContent(ans) ELSE None IN
          /\ failedAt' = IF Stage1Sends /\ IsFailure(ans) THEN idx ELSE 0
          /\ skipAt' = IF Stage1Sends /\ DegenerateAnswer(ans) THEN idx ELSE 0
          /\ IF Falsy(content)
             THEN NextFile
             ELSE pc' = "pf_describe" /\ idx' = idx
    /\ reqs1' = IF Stage1Sends THEN reqs1 + 1 ELSE reqs1
    /\ UNCHANGED <<variant, provider, keySet, ollamaSvc, fs, fs0, run, valid_files,
                   date_str, description, clean_desc, new_name, reqs2, renamed>>

\* process_filename (snapsweaper): description = generate_filename(content)
PfGenerateFilename ==
    /\ pc = "pf_describe"
    /\ variant = "snapsweaper"
    /\ \E ans \in Answers :
          LET desc == GenerateFilename(ans) IN
          /\ failedAt' = IF IsFailure(ans) THEN idx ELSE 0
          /\ skipAt' = 0
          /\ IF Rejected(desc)
             THEN NextFile /\ description' = None
             ELSE pc' = "pf_sanitize" /\ idx' = idx /\ description' = desc
    /\ reqs2' = reqs2 + 1
    /\ UNCHANGED <<variant, provider, keySet, ollamaSvc, fs, fs0, run, valid_files,
                   date_str, clean_desc, new_name, reqs1, renamed>>

\* process_filename (snapkeeper): description = get_image_description(path)
PfGetImageDescription ==
    /\ pc = "pf_describe"
    /\ variant = "snapkeeper"
    /\ \E ans \in Answers :
          LET desc == GetImageDescription(ans) IN
          /\ failedAt' = IF IsFailure(ans) THEN idx ELSE 0
          /\ skipAt' = 0
          /\ IF Falsy(desc)
             THEN NextFile /\ description' = None
             ELSE pc' = "pf_sanitize" /\ idx' = idx /\ description' = desc
    /\ reqs1' = reqs1 + 1
    /\ UNCHANGED <<variant, provider, keySet, ollamaSvc, fs, fs0, run, valid_files,
                   date_str, clean_desc, new_name, reqs2, renamed>>

\* process_filename: the sanitization; snapsweaper returns None for an empty
\* token.
PfSanitize ==
    /\ pc = "pf_sanitize"
    /\ clean_desc' = Sanitize(description, variant)
    /\ IF variant = "snapsweaper" /\ clean_desc' = <<>>
       THEN NextFile
       ELSE pc' = "pf_resolve" /\ idx' = idx
    /\ UNCHANGED <<variant, provider, keySet, ollamaSvc, fs, fs0, run, valid_files,
                   date_str, description, new_name, reqs1, reqs2, renamed>>
    /\ failedAt' = 0
    /\ skipAt' = 0

\* process_filename: the base name and the suffix loop; returns new_name.
PfResolve ==
    /\ pc = "pf_resolve"
    /\ new_name' = ResolvedName(valid_files[idx].dir, date_str, clean_desc)
    /\ pc' = "rename"
    /\ UNCHANGED <<variant, provider, keySet, ollamaSvc, fs, fs0, run, valid_files,
                   idx, date_str, description, clean_desc, reqs1, reqs2, renamed>>
    /\ failedAt' = 0
    /\ skipAt' = 0

\* process_directory: os.rename(path, new_name) in its try; the rename is done
\* (replacing whatever is at new_name) or raises and leaves the files alone.
Rename ==
    /\ pc = "rename"
    /\ \E done \in BOOLEAN :
          IF done
          THEN /\ fs' = (fs \ {valid_files[idx]}) \cup {new_name}
               /\ renamed' = renamed \cup {[src |-> valid_files[idx], dst |-> new_name,
                                            run |-> run]}
          ELSE UNCHANGED <<fs, renamed>>
    /\ NextFile
    /\ UNCHANGED <<variant, provider, keySet, ollamaSvc, fs0, run, valid_files,
                   date_str, description, clean_desc, new_name, reqs1, reqs2>>
    /\ failedAt' = 0
    /\ skipAt' = 0

\* The program is run again on the same directory.
RunAgain ==
    /\ pc \in {"done", "crashed"}
    /\ run < MaxRuns
    /\ run' = run + 1
    /\ pc' = "main"
    /\ valid_files' = <<>>
    /\ idx' = 1
    /\ ClearLocals
    /\ reqs1' = 0
    /\ reqs2' = 0
    /\ UNCHANGED <<variant, provider, keySet, ollamaSvc, fs, fs0, renamed>>
    /\ failedAt' = 0
    /\ skipAt' = 0

Next ==
    \/ Main
    \/ ScanDirectory
    \/ PdGetImageContent
    \/ PdGenerateFilename
    \/ PfDate
    \/ PfGetImageContent
    \/ PfGenerateFilename
    \/ PfGetImageDescription
    \/ PfSanitize
    \/ PfResolve
    \/ Rename
    \/ RunAgain

Spec == Init /\ [][Next]_vars

(***************************************************************************)
(* The date normalization on its own: process_filename is entered for one   *)
(* file whose name is drawn from DateNames.                                 *)
(***************************************************************************)
PngExt == <<".", "p", "n", "g">>

Years == { <<"0","0","0","0">>, <<"0","9","9","9">>, <<"2","0","2","3">>,
           <<"2","0","2","4">> }

Months == { <<"0","0">>, <<"0","2">>, <<"0","5">>, <<"1","3">> }

Days == { <<"0","0">>, <<"0","9">>, <<"2","9">>, <<"3","0">>, <<"3","1">>,
          <<"4","5">> }

\* Names of both prefixes with a date in the hyphenated and in the bare form.
DateNames ==
    {pre \o <<"-">> \o y \o sep \o m \o sep \o d \o PngExt :
        pre \in {ScreenShotPrefix, SCRPrefix}, y \in Years, m \in Months,
        d \in Days, sep \in { <<>>, <<"-">> }}

InitDate ==
    /\ \E c \in Configs :
          /\ c.keySet
          /\ c.provider = "dashscope"
          /\ variant = c.variant
          /\ provider = c.provider
          /\ keySet = c.keySet
          /\ ollamaSvc = c.ollamaSvc
    /\ \E name \in DateNames :
          /\ fs = {Join(TargetDir, name)}
          /\ valid_files = <<Join(TargetDir, name)>>
    /\ fs0 = fs
    /\ run = 1
    /\ pc = "pf_date"
    /\ idx = 1
    /\ date_str = None
    /\ description = None
    /\ clean_desc = None
    /\ new_name = NoPath
    /\ reqs1 = 0
    /\ reqs2 = 0
    /\ renamed = {}
    /\ failedAt = 0
    /\ skipAt = 0

SpecDate == InitDate /\ [][PfDate]_vars

(***************************************************************************)
(* The sanitization on its own: process_filename has a description drawn    *)
(* from the strings over SanAlphabet of at most MaxDescLen characters.      *)
(***************************************************************************)
SanAlphabet == {" ", "_", "-", "a", "!", "U+4E2D"}

SanDescriptions == UNION {[1..n -> SanAlphabet] : n \in 1..MaxDescLen}

InitSanitize ==
    /\ \E c \in Configs :
          /\ c.keySet
          /\ c.provider = "dashscope"
          /\ variant = c.variant
          /\ provider = c.provider
          /\ keySet = c.keySet
          /\ ollamaSvc = c.ollamaSvc
    /\ fs = {Join(TargetDir, SCRPrefix \o <<"-">> \o <<"2","0","2","3","0","5","0","9">> \o PngExt)}
    /\ valid_files = <<Join(TargetDir, SCRPrefix \o <<"-">> \o <<"2","0","2","3","0","5","0","9">> \o PngExt)>>
    /\ fs0 = fs
    /\ run = 1
    /\ pc = "pf_sanitize"
    /\ idx = 1
    /\ date_str = <<"2","0","2","3","0","5","0","9">>
    /\ description \in SanDescriptions
    /\ clean_desc = None
    /\ new_name = NoPath
    /\ reqs1 = 1
    /\ reqs2 = 0
    /\ renamed = {}
    /\ failedAt = 0
    /\ skipAt = 0

SpecSanitize == InitSanitize /\ [][PfSanitize]_vars

(***************************************************************************)
(* Properties.                                                              *)
(***************************************************************************)
Dsts == {r.dst : r \in renamed}

Srcs == {r.src : r \in renamed}

\* The path of name "{date_str}-{clean_desc}-{k}.png" beside the current file.
SuffixedTarget(k) ==
    Join(valid_files[idx].dir,
         date_str \o <<"-">> \o clean_desc \o <<"-">> \o IntToStr(k) \o PngExt)

\* The path of name "{date_str}-{clean_desc}.png" beside the current file.
DesiredTarget ==
    Join(valid_files[idx].dir, date_str \o <<"-">> \o clean_desc \o PngExt)

\* C1: the path process_filename returns does not exist when it is returned;
\* it is "{base}.png" when that is unused and otherwise "{base}-{k}.png" for
\* the smallest k >= 1 whose path is unused.
C1_ResolverReturnsSmallestUnused ==
    pc = "rename" =>
        /\ new_name \notin fs
        /\ DesiredTarget \notin fs => new_name = DesiredTarget
        /\ DesiredTarget \in fs =>
              \E k \in 1..(Cardinality(fs) + 1) :
                 /\ new_name = SuffixedTarget(k)
                 /\ \A j \in 1..(k - 1) : SuffixedTarget(j) \in fs

\* C1 witness: the base name and its "-1" both exist and "-2" is returned.
C1_Witness ==
    /\ pc = "rename"
    /\ DesiredTarget \in fs
    /\ SuffixedTarget(1) \in fs
    /\ new_name = SuffixedTarget(2)

\* C2: no rename targets an existing path: the targets are pairwise distinct,
\* no file is overwritten (every file of the start is still there or was
\* renamed, every renamed file is at its target) and the number of
\* directory entries never changes.
C2_BatchNeverOverwrites ==
    /\ pc = "rename" => new_name \notin fs
    /\ \A r1, r2 \in renamed : r1.dst = r2.dst => r1 = r2
    /\ fs = (fs0 \ Srcs) \cup Dsts
    /\ Cardinality(fs) = Cardinality(fs0)

\* C2 witness: two files of one directory with the same date and token were
\* renamed in one run, to the base name and to its "-1".
C2_Witness ==
    \E r1, r2 \in renamed :
        /\ r1.src # r2.src
        /\ r1.src.dir = r2.src.dir
        /\ r1.run = r2.run
        /\ r1.dst.name = <<"2","0","2","3","0","5","0","9","-","a">> \o PngExt
        /\ r2.dst.name = <<"2","0","2","3","0","5","0","9","-","a","-","1">> \o PngExt
        /\ r1.dst \notin fs0
        /\ r2.dst \notin fs0

\* C3 (as claimed): a date that is no calendar date is skipped for its file
\* only: the failure never leaves process_directory's loop.
C3_MalformedDateDoesNotHaltBatch == pc # "crashed"

\* C4 (as claimed): after a provider call that timed out, raised a transport
\* error, returned a status other than 200 or a malformed body, the file is
\* left at its path and the loop has gone on to the next file.
C4_FailedCallSkipsFile ==
    failedAt # 0 =>
        /\ idx = failedAt + 1
        /\ pc \in {"pd_content", "pf_date", "done"}
        /\ valid_files[failedAt] \in fs

TokenWellFormed(t) ==
    /\ t # <<>>
    /\ t # None
    /\ \A i \in 1..Len(t) : IsTokenChar(t[i])
    /\ \A i \in 1..(Len(t) - 1) : ~(t[i] = t[i + 1] /\ t[i] \in {"_", "-"})
    /\ t[1] \notin {"_", "-"}
    /\ t[Len(t)] \notin {"_", "-"}

\* C5 (as claimed): a rename is requested only for a name
\* "{date}-{token}.png" or "{date}-{token}-{k}.png" whose token is not empty,
\* has only word characters, ideographs and hyphens, no "__", no "--", and
\* no underscore or hyphen at either end; an empty token requests no rename.
C5_RenamedTokenWellFormed ==
    pc = "rename" =>
        /\ TokenWellFormed(clean_desc)
        /\ \/ new_name = DesiredTarget
           \/ \E k \in 1..(Cardinality(fs) + 1) : new_name = SuffixedTarget(k)

ValidCalendarDate(y, m, d) ==
    /\ y \in 1..9999
    /\ m \in 1..12
    /\ d >= 1
    /\ d <= (CASE m \in {1, 3, 5, 7, 8, 10, 12} -> 31
              [] m \in {4, 6, 9, 11} -> 30
              [] OTHER -> IF y % 400 = 0 \/ (y % 4 = 0 /\ y % 100 # 0) THEN 29 ELSE 28)

\* The digits of the date in the name of the current file, without hyphens.
EmbeddedDigits ==
    SelectSeq(OldFormat(valid_files[idx].name), LAMBDA c : c # "-")

\* The date in the name of the current file is written with hyphens.
Hyphenated == Len(OldFormat(valid_files[idx].name)) = 10

EmbeddedYear == StrToInt(SubSeq(EmbeddedDigits, 1, 4))

EmbeddedIsCalendarDate ==
    ValidCalendarDate(EmbeddedYear, StrToInt(SubSeq(EmbeddedDigits, 5, 6)),
                      StrToInt(SubSeq(EmbeddedDigits, 7, 8)))

\* process_filename has a date for the current file.
DateExtracted == pc \in {"pf_content", "pf_describe"} /\ date_str # None

\* C6 (amended): for a matching name whose embedded date is a calendar date
\* of the year 1000 or later, the extracted date is the eight digits
\* YYYYMMDD of that date, in the hyphenated and in the bare form alike.  A
\* bare date is taken over as it is, calendar date or not; a hyphenated
\* calendar date earlier than the year 1000 gives YYYYMMDD, or the year
\* without its leading zeros followed by MMDD.
C6_ValidDateNormalized ==
    DateExtracted =>
        /\ EmbeddedIsCalendarDate /\ EmbeddedYear >= 1000 =>
              date_str = EmbeddedDigits /\ Len(date_str) = 8 /\ AllDigits(date_str)
        /\ ~Hyphenated => date_str = EmbeddedDigits
        /\ Hyphenated =>
              /\ EmbeddedIsCalendarDate
              /\ date_str \in {EmbeddedDigits,
                               LStrip(SubSeq(EmbeddedDigits, 1, 4), {"0"})
                                   \o SubSeq(EmbeddedDigits, 5, 8)}

\* C6 witness: the date of "Screen Shot-2023-05-09.png" is "20230509".
C6_Witness ==
    /\ DateExtracted
    /\ valid_files[idx].name =
          ScreenShotPrefix \o <<"-","2","0","2","3","-","0","5","-","0","9">> \o PngExt
    /\ date_str = <<"2","0","2","3","0","5","0","9">>

\* C6 (as claimed): for every matching name the extracted date is the eight
\* digits got by parsing the embedded date as a calendar date and writing it
\* as YYYYMMDD, whatever the form.
C6_EveryDateNormalized ==
    DateExtracted =>
        /\ EmbeddedIsCalendarDate
        /\ date_str = EmbeddedDigits
        /\ Len(date_str) = 8

\* C7 (as claimed): no stage is repeated for a file: at most one stage-1
\* request and at most one stage-2 request are sent for it.
C7_EachStageAtMostOnce == reqs1 <= 1 /\ reqs2 <= 1

\* C8: the name a file is renamed to does not match the legacy pattern, and
\* no run selects a file that an earlier rename produced.
C8_RenamedNotReselected ==
    /\ \A r \in renamed : OldFormat(r.dst.name) = None
    /\ \A i \in 1..Len(valid_files) : valid_files[i] \notin Dsts

\* C8 witness: a second run has gone through a directory that holds a file
\* renamed by the first run and a file that is still eligible.
C8_Witness ==
    /\ run = 2
    /\ pc = "done"
    /\ valid_files # <<>>
    /\ \E r \in renamed : r.run = 1 /\ r.dst \in fs

\* C9: sanitizing a sanitized token changes nothing.
C9_SanitizeIdempotent ==
    pc # "pf_sanitize" => Sanitize(clean_desc, variant) = clean_desc

\* C9 witness: a description that sanitization shortened to a token that is
\* not empty.
C9_Witness ==
    /\ pc = "pf_resolve"
    /\ clean_desc # <<>>
    /\ Len(clean_desc) + 2 <= Len(description)

\* The provider is not available for the run: its key is not set, or the
\* pre-flight check of the local service fails.
ProviderUnavailable ==
    \/ KeyEnv(provider) /\ ~keySet
    \/ provider = "ollama" /\ ~CheckOllamaService(ollamaSvc)

\* C10 (as claimed): when the provider is not available for the run, no
\* description request is sent for any file and no file is renamed.
C10_NoRequestWhenUnavailable ==
    ProviderUnavailable => reqs1 = 0 /\ reqs2 = 0 /\ renamed = {}

\* C11 (as claimed): in the two-stage program, when a stage-1 answer is
\* "skip" in any letter case, empty or shorter than 3 characters, the loop
\* goes on to the next file, no stage-2 request is sent for the file and the
\* file is left at its path.
C11_SkipIssuesNoStage2 ==
    skipAt # 0 =>
        /\ idx = skipAt + 1
        /\ pc \in {"pd_content", "done"}
        /\ valid_files[skipAt] \in fs
        /\ reqs2 = 0

\* The name has one of the three image extensions, in any letter case, and
\* starts with "Screen Shot-" or "SCR-" followed by YYYY-MM-DD or YYYYMMDD.
LegacyImageName(n) ==
    /\ \E k \in {4, 5} :
          /\ Len(n) >= k
          /\ Lower(SubSeq(n, Len(n) - k + 1, Len(n))) \in ImageExts
    /\ \E pre \in {ScreenShotPrefix \o <<"-">>, SCRPrefix \o <<"-">>} :
          /\ Len(n) >= Len(pre)
          /\ \A i \in 1..Len(pre) : n[i] = pre[i]
          /\ LET at(i) == n[Len(pre) + i] IN
             \/ /\ Len(n) >= Len(pre) + 8
                /\ \A i \in 1..8 : at(i) \in Digits
             \/ /\ Len(n) >= Len(pre) + 10
                /\ \A i \in {1, 2, 3, 4, 6, 7, 9, 10} : at(i) \in Digits
                /\ at(5) = "-" /\ at(8) = "-"

\* C12: only a file that was in the directory, has an image extension and a
\* legacy name is ever renamed, and it stays in its directory; every other
\* file of the start, and every such file that was not renamed (no result,
\* empty token, failed rename), is still at its path.
C12_OnlyEligibleRenamedInPlace ==
    /\ \A r \in renamed :
          /\ r.src \in fs0
          /\ LegacyImageName(r.src.name)
          /\ r.dst.dir = r.src.dir
          /\ r.src \notin fs
          /\ r.dst \in fs
    /\ \A p \in fs0 : ~LegacyImageName(p.name) => p \in fs /\ p \notin Srcs
    /\ \A p \in fs0 : p \notin Srcs => p \in fs

\* C12 witness: a run has ended in which a file of the sub-directory was
\* renamed, a file with a legacy name was skipped and a file without one
\* was in the directory.
C12_Witness ==
    /\ pc = "done"
    /\ run = 1
    /\ \E r \in renamed : r.src.dir = SubDir /\ r.dst \in fs
    /\ \E p \in fs0 : LegacyImageName(p.name) /\ p \notin Srcs /\ p \in fs
    /\ \E p \in fs0 : ~LegacyImageName(p.name) /\ p \in fs

====
